---- MODULE Spec2Model ----
(***************************************************************************)
(* Utilities Email Tracker: the bill-extraction pipeline.                  *)
(*                                                                         *)
(*   parsers/duke_energy.py, psnc_energy.py, raleigh_water.py, generic.py  *)
(*       the provider extractors (one email -> bill record or None)        *)
(*   parsers/__init__.py   extract_bills, the dispatcher over PARSERS      *)
(*   coordinator.py        _limit_bills, _build_summary, _async_update_data*)
(*                                                                         *)
(* Text is modelled by what the regular expressions of the parsers can     *)
(* see of it: a subject is a set of phrases, a body a set of lines, each   *)
(* line a phrase or a labelled field "Label: value".  Every line sits on   *)
(* its own raw line, in the order of Layout, and a label occurs at most    *)
(* once, so that pattern.search (first match) is determined.               *)
(***************************************************************************)
EXTENDS Integers, Sequences, FiniteSets, TLC

VARIABLES
    pc,             \* which operation was applied last
    email,          \* the email handed to a single extractor
    utc_today,      \* datetime.utcnow().date(), as a day number
    local_today,    \* datetime.now().date(), as a day number
    parser,         \* name of the extractor applied to `email`
    parsed,         \* what that extractor returned (a bill record or NoBill)
    emails,         \* the batch handed to extract_bills
    faults,         \* the <<email index, parser name>> calls that raise
    bills,          \* the list returned by extract_bills / given to _limit_bills
    max_messages,   \* options[CONF_MAX_MESSAGES]
    limited,        \* the list returned by _limit_bills
    summary,        \* the dict returned by _build_summary
    data,           \* coordinator.data: the last published result
    last_update_success, \* coordinator.last_update_success
    fetch,          \* what the mail fetch of the last poll cycle met
    outcome,        \* how the last _async_update_data ended
    now,            \* the wall clock read for last_update
    session,        \* the run of _fetch_emails on its IMAP client
    hass_data,      \* hass.data: the DOMAIN key and the coordinators under it
    entries,        \* per config entry: its platform forwarded, its first refresh done
    operation       \* the last setup or unload operation and its inputs

vars == <<pc, email, utc_today, local_today, parser, parsed, emails, faults,
          bills, max_messages, limited, summary, data, last_update_success,
          fetch, outcome, now, session, hass_data, entries, operation>>

----------------------------------------------------------------------------
(* Bounds of the model.                                                    *)

MaxDay == 3             \* calendar days are 1..MaxDay
MaxBodyLines == 3       \* lines of the body of the email given to one extractor
MaxBills == 3           \* records in a list given to _limit_bills
MaxStamp == 2           \* distinct non-empty received strings
MaxLimit == 3           \* configured maximum (scaled down from 10..500)
MaxEmails == 2          \* emails in a batch
MaxFaults == 1          \* parser calls of a batch that raise
MaxSummaryBills == 2    \* records in a list given to _build_summary
MaxNow == 3             \* wall-clock readings of the poll cycle
MaxEntries == 3         \* config entries

Days == 1..MaxDay

----------------------------------------------------------------------------
(* Python values.  A string is modelled by its rank in lexicographic       *)
(* order, rank 0 being the empty string; an ISO date string by its day.    *)

None == [t |-> "none", v |-> 0]
PyStr(n) == [t |-> "str", v |-> n]
PyInt(n) == [t |-> "int", v |-> n]
PyFloat(cents) == [t |-> "float", v |-> cents]

\* bool(x): None, "", 0 and 0.0 are falsy
Truthy(x) == x.t # "none" /\ x.v # 0

\* a or b
PyOr(a, b) == IF Truthy(a) THEN a ELSE b

----------------------------------------------------------------------------
(* Text.  A value is what follows a label on its line.                     *)
(*   kind "Month D, YYYY"   a valid month-name date of day n               *)
(*   kind "MM/DD/YYYY"      a valid numeric date of day n                  *)
(*   kind "Sept D, YYYY"    matched by the date finders, rejected by       *)
(*                          strptime (%b knows only "Sep")                 *)
(*   kind "TBD"             no date at all                                 *)
(*   kind "$d.dd"           an amount of n cents                           *)
(*   kind "$d"              an amount of one digit, n cents                *)
(*   kind ","               matches [0-9,]+ but is no number               *)
(*   kind "123-456"         digits and dashes                              *)
(*   kind "****1234"        masked account                                 *)
(*   kind "N/A"             letters and a slash                            *)
(* tail = TRUE: the value is followed on its line by words of the capture  *)
(* class ("March 3, 2025 Thank you for ...").                              *)

Val(kind, n, tail) == [kind |-> kind, n |-> n, tail |-> tail]
NoValue == Val("none", 0, FALSE)
Found(v) == v.kind # "none"

Line(label, value) == [label |-> label, value |-> value]
Phrase(text) == Line(text, NoValue)

\* "<a href=/bill>" is markup: a tag whose attribute holds the word "bill"
PhraseTexts == {"Duke Energy", "PSNC Energy", "City of Raleigh", "Utility Bill",
                "Your statement is ready", "Past Due", "Paid in full", "Thank you",
                "<a href=/bill>"}

DateValues == {Val("Month D, YYYY", d, FALSE) : d \in Days}
              \cup {Val("Month D, YYYY", 1, TRUE), Val("MM/DD/YYYY", 1, FALSE),
                    Val("Sept D, YYYY", 1, FALSE), Val("TBD", 0, FALSE)}

FieldLines ==
    {Line("Due Date:", v) : v \in DateValues}
    \cup {Line("Billing Date:", v) : v \in {Val("Month D, YYYY", 1, FALSE), Val("TBD", 0, FALSE)}}
    \cup {Line("Date of Bank Draft:", v) :
            v \in {Val("Month D, YYYY", 1, FALSE), Val("Month D, YYYY", MaxDay, FALSE),
                   Val("TBD", 0, FALSE)}}
    \cup {Line("Amount Due:", v) : v \in {Val("$d.dd", 8550, FALSE), Val(",", 0, FALSE)}}
    \cup {Line("Amount to Be Drafted:", Val("$d.dd", 4000, FALSE))}
    \cup {Line("Account Number:", v) : v \in {Val("123-456", 0, FALSE), Val("N/A", 0, FALSE)}}
    \cup {Line("Account Ending In:", v) : v \in {Val("****1234", 0, FALSE), Val("N/A", 0, FALSE)}}
    \cup {Line("Account:", Val("123-456", 0, FALSE))}

Lines == {Phrase(p) : p \in PhraseTexts} \cup FieldLines

\* the order in which the lines of a body follow each other
Layout == <<"<a href=/bill>", "Duke Energy", "PSNC Energy", "City of Raleigh", "Utility Bill",
            "Your statement is ready", "Past Due", "Paid in full",
            "Account Number:", "Account Ending In:", "Account:",
            "Amount Due:", "Amount to Be Drafted:",
            "Billing Date:", "Due Date:", "Date of Bank Draft:", "Thank you">>

Pos(label) == CHOOSE i \in DOMAIN Layout : Layout[i] = label

\* the lower-cased substrings a line's label text contains, among those any
\* parser looks for with `in`
Needles(label) ==
    CASE label = "Duke Energy" -> {"duke energy"}
      [] label = "PSNC Energy" -> {"psnc energy"}
      [] label = "City of Raleigh" -> {"raleigh"}
      [] label = "Utility Bill" -> {"utility bill", "utility", "bill"}
      [] label = "Your statement is ready" -> {"statement"}
      [] label = "Past Due" -> {"past due", "due"}
      [] label = "Paid in full" -> {"paid"}
      [] label = "Amount Due:" -> {"due"}
      [] label = "Due Date:" -> {"due"}
      [] label = "Billing Date:" -> {"bill"}
      [] label = "<a href=/bill>" -> {"bill"}
      [] OTHER -> {}

\* needle in text, text a set of lines
Contains(text, needle) == \E ln \in text : needle \in Needles(ln.label)

\* the subject's phrases and the body's lines as one text
SubjectLines(e) == {Phrase(p) : p \in e.subject}
Combined(e, body) == SubjectLines(e) \cup body

----------------------------------------------------------------------------
(* Emails and bill records.                                                *)

Email(message_id, uid, from_display, from_address, subject, body, date) ==
    [message_id |-> message_id, uid |-> uid, from_display |-> from_display,
     from_address |-> from_address, subject |-> subject, body |-> body,
     date |-> date]

\* the keys of a bill dict the aggregation reads or a claim speaks of; a key
\* a parser does not set reads as None (dict.get).  subject, snippet,
\* from_address, service_address and customer_name are left out.
Bill(id, provider, received, amount_due, amount_due_value, due_date, due_date_iso, status, account_number, billing_date, billing_date_iso) ==
    [id |-> id, provider |-> provider, received |-> received,
     amount_due |-> amount_due, amount_due_value |-> amount_due_value,
     due_date |-> due_date, due_date_iso |-> due_date_iso, status |-> status,
     account_number |-> account_number, billing_date |-> billing_date,
     billing_date_iso |-> billing_date_iso]

NoBill == None
IsBill(b) == b # NoBill

----------------------------------------------------------------------------
(* Helpers the three structured parsers each define with the same code.    *)

\* a compiled pattern "Label:\s*(class)": the kinds of value its group
\* captures whole, and the kinds of which it captures only the leading letters
Re(label, whole, part) == [label |-> label, whole |-> whole, part |-> part]

DateClass == {"Month D, YYYY", "MM/DD/YYYY", "Sept D, YYYY", "TBD"}

\* the text the group captures of a value; "$" is never part of a group
Capture(re, v) ==
    IF v.kind \in re.whole
    THEN Val(IF v.kind = "$d.dd" THEN "d.dd" ELSE v.kind, v.n, v.tail)
    ELSE IF v.kind \in re.part THEN Val("letters", 0, FALSE)
    ELSE NoValue

\* strip tags: markup lines leave nothing to search
normalize(body) == {ln \in body : ln.label # "<a href=/bill>"}

search_group(re, text) ==
    IF \E ln \in text : ln.label = re.label /\ Found(Capture(re, ln.value))
    THEN Capture(re, (CHOOSE ln \in text : ln.label = re.label).value)
    ELSE NoValue

\* -> <<display, amount>>
parse_amount(value) ==
    IF ~Found(value) THEN <<NoValue, None>>
    ELSE <<Val(IF value.kind = "d.dd" THEN "$d.dd" ELSE "$,", value.n, FALSE),
           IF value.kind = "d.dd" THEN PyFloat(value.n) ELSE None>>

\* strptime over the eight formats; the ISO string of day n, or None
parse_date_iso(value) ==
    IF ~Found(value) THEN None
    ELSE IF value.kind \in {"Month D, YYYY", "MM/DD/YYYY"} /\ ~value.tail
         THEN PyStr(value.n)
         ELSE None

\* DATE_FINDER_RE not applied: the captured span as it is
ExtractFirstDateNoFinder(value) == value

\* the first date token of the captured span, else the span itself
extract_first_date(value) ==
    IF ~Found(value) THEN NoValue
    ELSE IF value.kind \in {"Month D, YYYY", "MM/DD/YYYY", "Sept D, YYYY"}
         THEN Val(value.kind, value.n, FALSE)
         ELSE value

----------------------------------------------------------------------------
(* parsers/duke_energy.py                                                  *)

DUKE_ACCOUNT_RE == Re("Account Number:", {"123-456"}, {})
DUKE_BILLING_DATE_RE == Re("Billing Date:", DateClass, {})
DUKE_DUE_DATE_RE == Re("Due Date:", DateClass, {})
DUKE_AMOUNT_DUE_RE == Re("Amount Due:", {"$d.dd", ","}, {})

\* the `if not any((account_number, amount_display, due_display,
\* billing_display)): return None` of parse_duke_energy
duke_has_facts(account_number, amount_display, due_display, billing_display) ==
    Found(account_number) \/ Found(amount_display) \/ Found(due_display)
        \/ Found(billing_display)

\* the comparison turned round
DukeDeriveStatusReversed(due_iso, today) ==
    IF ~Truthy(due_iso) THEN "due"
    ELSE IF due_iso.v > today THEN "overdue"
    ELSE "due"

\* due_iso is None or a valid ISO date, so fromisoformat does not raise;
\* today is datetime.utcnow().date()
duke_derive_status(due_iso, today) ==
    IF ~Truthy(due_iso) THEN "due"
    ELSE IF due_iso.v < today THEN "overdue"
    ELSE "due"

\* the `if "duke energy" not in combined: return None` left out
ParseDukeNoGate(e, today) ==
    LET normalized == normalize(e.body)
        account_number == search_group(DUKE_ACCOUNT_RE, normalized)
        amount == parse_amount(search_group(DUKE_AMOUNT_DUE_RE, normalized))
        billing_display == extract_first_date(search_group(DUKE_BILLING_DATE_RE, normalized))
        billing_iso == parse_date_iso(billing_display)
        due_display == extract_first_date(search_group(DUKE_DUE_DATE_RE, normalized))
        due_iso == parse_date_iso(due_display)
    IN  IF ~duke_has_facts(account_number, amount[1], due_display, billing_display)
        THEN NoBill
        ELSE Bill(PyOr(e.message_id, e.uid), "Duke Energy", e.date,
                  amount[1], amount[2], due_display, due_iso,
                  duke_derive_status(due_iso, today),
                  account_number, billing_display, billing_iso)

parse_duke_energy(e, today) ==
    LET normalized == normalize(e.body)
        account_number == search_group(DUKE_ACCOUNT_RE, normalized)
        amount == parse_amount(search_group(DUKE_AMOUNT_DUE_RE, normalized))
        billing_display == extract_first_date(search_group(DUKE_BILLING_DATE_RE, normalized))
        billing_iso == parse_date_iso(billing_display)
        due_display == extract_first_date(search_group(DUKE_DUE_DATE_RE, normalized))
        due_iso == parse_date_iso(due_display)
    IN  IF ~Contains(Combined(e, normalized), "duke energy") THEN NoBill
        ELSE IF ~duke_has_facts(account_number, amount[1], due_display, billing_display)
             THEN NoBill
        ELSE Bill(PyOr(e.message_id, e.uid), "Duke Energy", e.date,
                  amount[1], amount[2], due_display, due_iso,
                  duke_derive_status(due_iso, today),
                  account_number, billing_display, billing_iso)

----------------------------------------------------------------------------
(* parsers/psnc_energy.py                                                  *)

PSNC_ACCOUNT_RE == Re("Account Ending In:", {"****1234"}, {"N/A"})
PSNC_AMOUNT_DRAFT_RE == Re("Amount to Be Drafted:", {"$d.dd", ","}, {})
PSNC_BANK_DRAFT_DATE_RE == Re("Date of Bank Draft:", DateClass, {})

PSNC_IDENTIFIERS == <<"psnc energy", "messages.psncenergy.com", "dominion energy",
                      "enbridge gas", "dominionenergync.com">>

\* keep digits and "*" only
normalize_account(value) ==
    IF ~Found(value) THEN NoValue
    ELSE IF value.kind = "****1234" THEN value
    ELSE NoValue

psnc_derive_status(due_iso, today) ==
    IF ~Truthy(due_iso) THEN "due"
    ELSE IF due_iso.v < today THEN "overdue"
    ELSE "due"

\* the operands of `or` swapped: the uid before the message id
ParsePsncUidFirst(e, today) ==
    LET normalized == normalize(e.body)
        combined == Combined(e, normalized)
        account_number == normalize_account(search_group(PSNC_ACCOUNT_RE, normalized))
        amount == parse_amount(search_group(PSNC_AMOUNT_DRAFT_RE, normalized))
        draft_display == extract_first_date(search_group(PSNC_BANK_DRAFT_DATE_RE, normalized))
        draft_iso == parse_date_iso(draft_display)
    IN  IF ~(\E i \in DOMAIN PSNC_IDENTIFIERS : Contains(combined, PSNC_IDENTIFIERS[i]))
        THEN NoBill
        ELSE IF ~(Found(account_number) \/ Found(amount[1]) \/ Found(draft_display))
             THEN NoBill
        ELSE Bill(PyOr(e.uid, e.message_id), "PSNC Energy", e.date,
                  amount[1], amount[2], draft_display, draft_iso,
                  psnc_derive_status(draft_iso, today),
                  account_number, NoValue, None)

parse_psnc_energy(e, today) ==
    LET normalized == normalize(e.body)
        combined == Combined(e, normalized)
        account_number == normalize_account(search_group(PSNC_ACCOUNT_RE, normalized))
        amount == parse_amount(search_group(PSNC_AMOUNT_DRAFT_RE, normalized))
        draft_display == extract_first_date(search_group(PSNC_BANK_DRAFT_DATE_RE, normalized))
        draft_iso == parse_date_iso(draft_display)
    IN  IF ~(\E i \in DOMAIN PSNC_IDENTIFIERS : Contains(combined, PSNC_IDENTIFIERS[i]))
        THEN NoBill
        ELSE IF ~(Found(account_number) \/ Found(amount[1]) \/ Found(draft_display))
             THEN NoBill
        ELSE Bill(PyOr(e.message_id, e.uid), "PSNC Energy", e.date,
                  amount[1], amount[2], draft_display, draft_iso,
                  psnc_derive_status(draft_iso, today),
                  account_number, NoValue, None)

----------------------------------------------------------------------------
(* parsers/raleigh_water.py                                                *)

RALEIGH_ACCOUNT_RE == Re("Account:", {"123-456"}, {})
RALEIGH_AMOUNT_DUE_RE == Re("Amount Due:", {"$d.dd", ","}, {})
RALEIGH_DUE_DATE_RE == Re("Due Date:", DateClass, {})

\* `<=` for `<`
RaleighDeriveStatusInclusive(due_iso, today) ==
    IF ~Truthy(due_iso) THEN "due"
    ELSE IF due_iso.v <= today THEN "overdue"
    ELSE "due"

raleigh_derive_status(due_iso, today) ==
    IF ~Truthy(due_iso) THEN "due"
    ELSE IF due_iso.v < today THEN "overdue"
    ELSE "due"

parse_raleigh_water(e, today) ==
    LET normalized == normalize(e.body)
        combined == Combined(e, normalized)
        account_number == search_group(RALEIGH_ACCOUNT_RE, normalized)
        amount == parse_amount(search_group(RALEIGH_AMOUNT_DUE_RE, normalized))
        due_display == extract_first_date(search_group(RALEIGH_DUE_DATE_RE, normalized))
        due_iso == parse_date_iso(due_display)
    IN  IF ~Contains(combined, "raleigh") \/ ~Contains(combined, "utility bill")
        THEN NoBill
        ELSE IF ~(Found(account_number) \/ Found(amount[1]) \/ Found(due_display))
             THEN NoBill
        ELSE Bill(PyOr(e.message_id, e.uid), "City of Raleigh Water", e.date,
                  amount[1], amount[2], due_display, due_iso,
                  raleigh_derive_status(due_iso, today),
                  account_number, NoValue, None)

----------------------------------------------------------------------------
(* parsers/generic.py                                                      *)

\* the paid phrases before the overdue ones
StatusHintsPaidFirst == <<<<"paid", "paid">>, <<"payment received", "paid">>,
                          <<"past due", "overdue">>, <<"overdue", "overdue">>,
                          <<"late fee", "overdue">>>>

STATUS_HINTS == <<<<"past due", "overdue">>, <<"overdue", "overdue">>,
                  <<"late fee", "overdue">>, <<"paid", "paid">>,
                  <<"payment received", "paid">>>>

UTILITY_KEYWORDS == <<"bill", "statement", "payment", "due", "utility", "electric",
                      "gas", "water", "sewer", "trash", "invoice">>

\* the first line, in layout order, of a non-empty set of lines
FirstLine(S) == CHOOSE ln \in S : \A other \in S : Pos(ln.label) <= Pos(other.label)

\* from_display and from_address are strings here, "" standing for None
derive_provider(e) ==
    IF e.from_display # "" THEN e.from_display
    ELSE IF e.from_address = "billing@acme-power.com" THEN "Acme Power"
    ELSE "Unknown"

\* AMOUNT_HINT_REGEX: a hint word (amount, total, balance, payment), up to 32
\* characters of the same line, then a number.  The 32 characters are matched
\* greedily, so of "Amount Due: $85.50" the number captured is the last digit
\* alone, "0": display "$0", value 0.0.  A line without digits does not match,
\* and AMOUNT_LOOSE_REGEX ("$" before a number) then finds nothing either.
\* -> <<display, value>>
extract_amount(body) ==
    LET hits == {ln \in body : ln.label \in {"Amount Due:", "Amount to Be Drafted:"}
                                /\ ln.value.kind = "$d.dd"}
        last_digit == FirstLine(hits).value.n % 10
    IN  IF hits = {} THEN <<NoValue, None>>
        ELSE <<Val("$d", last_digit * 100, FALSE), PyFloat(last_digit * 100)>>

generic_parse_date_iso(date_str) ==
    IF date_str.kind \in {"Month D, YYYY", "MM/DD/YYYY"} /\ ~date_str.tail
    THEN PyStr(date_str.n)
    ELSE None

\* DATE_WORD_REGEX anywhere in the text first, then DATE_NUMERIC_REGEX;
\* group(0) is the date token alone  -> <<date_str, iso_date>>
extract_due_date(text) ==
    LET words == {ln \in text : ln.value.kind \in {"Month D, YYYY", "Sept D, YYYY"}}
        numeric == {ln \in text : ln.value.kind = "MM/DD/YYYY"}
        hit == IF words # {} THEN FirstLine(words) ELSE FirstLine(numeric)
        date_str == Val(hit.value.kind, hit.value.n, FALSE)
    IN  IF words = {} /\ numeric = {} THEN <<NoValue, None>>
        ELSE <<date_str, generic_parse_date_iso(date_str)>>

RECURSIVE hint_status(_, _)
\* the status of the first phrase of STATUS_HINTS[i..] the text contains, or ""
hint_status(text, i) ==
    IF i > Len(STATUS_HINTS) THEN ""
    ELSE IF Contains(text, STATUS_HINTS[i][1]) THEN STATUS_HINTS[i][2]
    ELSE hint_status(text, i + 1)

\* today is datetime.now().date(), the local date
determine_status(text, due_date_iso, today) ==
    IF hint_status(text, 1) # "" THEN hint_status(text, 1)
    ELSE IF Truthy(due_date_iso) /\ due_date_iso.v < today THEN "overdue"
    ELSE "due"

parse_generic_email(e, today) ==
    LET combined == Combined(e, e.body)
        amount == extract_amount(e.body)
        due == extract_due_date(combined)
    IN  IF e.subject = {} /\ e.body = {} THEN NoBill
        ELSE IF ~(\E i \in DOMAIN UTILITY_KEYWORDS : Contains(combined, UTILITY_KEYWORDS[i]))
             THEN NoBill
        ELSE Bill(PyOr(e.message_id, e.uid), derive_provider(e), e.date,
                  amount[1], amount[2], due[1], due[2],
                  determine_status(combined, due[2], today),
                  NoValue, NoValue, None)

----------------------------------------------------------------------------
(* parsers/__init__.py                                                     *)

PARSERS == <<"duke_energy", "psnc_energy">>

\* parser(email) for a registered parser name
CallParser(name, e, today) ==
    IF name = "duke_energy" THEN parse_duke_energy(e, today)
    ELSE parse_psnc_energy(e, today)

\* one turn of the inner loop: what parser k adds to bills for email i.  A
\* call in `raising` raises, the except clause logs it and continues.
ParserYield(batch, raising, today, i, k) ==
    IF <<i, PARSERS[k]>> \in raising THEN <<>>
    ELSE LET result == CallParser(PARSERS[k], batch[i], today)
         IN  IF ~IsBill(result) THEN <<>> ELSE <<result>>

RECURSIVE extract_loop(_, _, _, _, _, _)
\* the two nested loops from email i, parser k on, bills so far in acc
extract_loop(batch, raising, today, i, k, acc) ==
    IF i > Len(batch) THEN acc
    ELSE IF k > Len(PARSERS) THEN extract_loop(batch, raising, today, i + 1, 1, acc)
    ELSE extract_loop(batch, raising, today, i, k + 1,
                      acc \o ParserYield(batch, raising, today, i, k))

RECURSIVE ExtractLoopBreak(_, _, _, _, _, _)
\* `break` for `continue` in the except clause: a raising call ends the
\* email's turn
ExtractLoopBreak(batch, raising, today, i, k, acc) ==
    IF i > Len(batch) THEN acc
    ELSE IF k > Len(PARSERS) THEN ExtractLoopBreak(batch, raising, today, i + 1, 1, acc)
    ELSE IF <<i, PARSERS[k]>> \in raising
         THEN ExtractLoopBreak(batch, raising, today, i + 1, 1, acc)
    ELSE ExtractLoopBreak(batch, raising, today, i, k + 1,
                          acc \o ParserYield(batch, raising, today, i, k))

ExtractBillsBreak(batch, raising, today) ==
    ExtractLoopBreak(batch, raising, today, 1, 1, <<>>)

extract_bills(batch, raising, today) == extract_loop(batch, raising, today, 1, 1, <<>>)

----------------------------------------------------------------------------
(* coordinator.py: _limit_bills                                            *)

RECURSIVE DedupNullToo(_, _, _)
\* `if identifier in seen` without the test that there is an identifier
DedupNullToo(rest, seen, unique_bills) ==
    IF rest = <<>> THEN unique_bills
    ELSE LET bill == Head(rest)
             identifier == bill.id
         IN  IF identifier \in seen
             THEN DedupNullToo(Tail(rest), seen, unique_bills)
             ELSE DedupNullToo(Tail(rest), seen \cup {identifier},
                               Append(unique_bills, bill))

RECURSIVE dedup(_, _, _)
\* the deduplication loop over the rest of the list
dedup(rest, seen, unique_bills) ==
    IF rest = <<>> THEN unique_bills
    ELSE LET bill == Head(rest)
             identifier == bill.id
         IN  IF Truthy(identifier) /\ identifier \in seen
             THEN dedup(Tail(rest), seen, unique_bills)
             ELSE dedup(Tail(rest),
                        IF Truthy(identifier) THEN seen \cup {identifier} ELSE seen,
                        Append(unique_bills, bill))

\* key=lambda item: item.get("received") or "", as the rank of the string
SortKey(item) == PyOr(item.received, PyStr(0)).v

RECURSIVE InsertDescTiesFirst(_, _)
\* x put before the elements whose key is equal to its own
InsertDescTiesFirst(sorted, x) ==
    IF sorted = <<>> THEN <<x>>
    ELSE IF SortKey(Head(sorted)) > SortKey(x)
         THEN <<Head(sorted)>> \o InsertDescTiesFirst(Tail(sorted), x)
         ELSE <<x>> \o sorted

RECURSIVE insert_desc(_, _)
\* x put behind every element whose key is >= its own
insert_desc(sorted, x) ==
    IF sorted = <<>> THEN <<x>>
    ELSE IF SortKey(Head(sorted)) >= SortKey(x)
         THEN <<Head(sorted)>> \o insert_desc(Tail(sorted), x)
         ELSE <<x>> \o sorted

RECURSIVE sort_desc(_, _)
\* list.sort(key=..., reverse=True): descending and stable
sort_desc(rest, sorted) ==
    IF rest = <<>> THEN sorted
    ELSE sort_desc(Tail(rest), insert_desc(sorted, Head(rest)))

\* the deduplication loop left out
LimitBillsNoDedup(input, maximum) ==
    IF input = <<>> THEN <<>>
    ELSE LET unique_bills == sort_desc(input, <<>>)
         IN  IF Len(unique_bills) <= maximum THEN unique_bills
             ELSE SubSeq(unique_bills, 1, maximum)

\* the slice one too long
LimitBillsOffByOne(input, maximum) ==
    IF input = <<>> THEN <<>>
    ELSE LET unique_bills == sort_desc(dedup(input, {}, <<>>), <<>>)
         IN  IF Len(unique_bills) <= maximum + 1 THEN unique_bills
             ELSE SubSeq(unique_bills, 1, maximum + 1)

\* the sort left out
LimitBillsUnsorted(input, maximum) ==
    IF input = <<>> THEN <<>>
    ELSE LET unique_bills == dedup(input, {}, <<>>)
         IN  IF Len(unique_bills) <= maximum THEN unique_bills
             ELSE SubSeq(unique_bills, 1, maximum)

\* unique_bills.reverse() for the sort
LimitBillsReversing(input, maximum) ==
    IF input = <<>> THEN <<>>
    ELSE LET deduped == dedup(input, {}, <<>>)
             unique_bills == [i \in 1..Len(deduped) |-> deduped[Len(deduped) + 1 - i]]
         IN  IF Len(unique_bills) <= maximum THEN unique_bills
             ELSE SubSeq(unique_bills, 1, maximum)

\* the slice taken from the end: unique_bills[-max_messages:]
LimitBillsKeepsTail(input, maximum) ==
    IF input = <<>> THEN <<>>
    ELSE LET unique_bills == sort_desc(dedup(input, {}, <<>>), <<>>)
         IN  IF Len(unique_bills) <= maximum THEN unique_bills
             ELSE SubSeq(unique_bills, Len(unique_bills) - maximum + 1, Len(unique_bills))

limit_bills(input, maximum) ==
    IF input = <<>> THEN <<>>
    ELSE LET unique_bills == sort_desc(dedup(input, {}, <<>>), <<>>)
         IN  IF Len(unique_bills) <= maximum THEN unique_bills
             ELSE SubSeq(unique_bills, 1, maximum)

----------------------------------------------------------------------------
(* coordinator.py: _build_summary                                          *)

\* datetime.fromisoformat accepts the string
IsoValid(s) == s.t = "str" /\ s.v \in Days

\* the later of the two dates
MinIsoDateLatest(existing, candidate) ==
    IF ~Truthy(existing) THEN candidate
    ELSE IF ~IsoValid(existing) \/ ~IsoValid(candidate) THEN existing
    ELSE IF candidate.v > existing.v THEN candidate
    ELSE existing

min_iso_date(existing, candidate) ==
    IF ~Truthy(existing) THEN candidate
    ELSE IF ~IsoValid(existing) \/ ~IsoValid(candidate) THEN existing
    ELSE IF candidate.v < existing.v THEN candidate
    ELSE existing

\* the accumulators of the loop
Acc(by_provider, total_amount, next_due, overdue) ==
    [by_provider |-> by_provider, total_amount |-> total_amount,
     next_due |-> next_due, overdue |-> overdue]

\* `total_amount = float(amount_value)` for `+=`
SummaryStepLastAmount(acc, bill) ==
    LET provider == bill.provider
        amount_value == bill.amount_due_value
        due_iso == bill.due_date_iso
        count == IF provider \in DOMAIN acc.by_provider THEN acc.by_provider[provider] ELSE 0
    IN  Acc([p \in DOMAIN acc.by_provider \cup {provider} |->
                IF p = provider THEN count + 1 ELSE acc.by_provider[p]],
            IF amount_value.t \in {"int", "float"}
                THEN amount_value.v ELSE acc.total_amount,
            IF Truthy(due_iso) THEN min_iso_date(acc.next_due, due_iso) ELSE acc.next_due,
            IF bill.status = "overdue" THEN acc.overdue + 1 ELSE acc.overdue)

\* `!= "paid"` for `== "overdue"`
SummaryStepCountsUnpaid(acc, bill) ==
    LET provider == bill.provider
        amount_value == bill.amount_due_value
        due_iso == bill.due_date_iso
        count == IF provider \in DOMAIN acc.by_provider THEN acc.by_provider[provider] ELSE 0
    IN  Acc([p \in DOMAIN acc.by_provider \cup {provider} |->
                IF p = provider THEN count + 1 ELSE acc.by_provider[p]],
            IF amount_value.t \in {"int", "float"}
                THEN acc.total_amount + amount_value.v ELSE acc.total_amount,
            IF Truthy(due_iso) THEN min_iso_date(acc.next_due, due_iso) ELSE acc.next_due,
            IF bill.status # "paid" THEN acc.overdue + 1 ELSE acc.overdue)

\* the body of the loop for one bill
summary_step(acc, bill) ==
    LET provider == bill.provider
        amount_value == bill.amount_due_value
        due_iso == bill.due_date_iso
        count == IF provider \in DOMAIN acc.by_provider THEN acc.by_provider[provider] ELSE 0
    IN  Acc([p \in DOMAIN acc.by_provider \cup {provider} |->
                IF p = provider THEN count + 1 ELSE acc.by_provider[p]],
            IF amount_value.t \in {"int", "float"}
                THEN acc.total_amount + amount_value.v ELSE acc.total_amount,
            IF Truthy(due_iso) THEN min_iso_date(acc.next_due, due_iso) ELSE acc.next_due,
            IF bill.status = "overdue" THEN acc.overdue + 1 ELSE acc.overdue)

RECURSIVE summary_loop(_, _)
summary_loop(rest, acc) ==
    IF rest = <<>> THEN acc
    ELSE summary_loop(Tail(rest), summary_step(acc, Head(rest)))

\* the accumulators kept from the call before instead of starting afresh
BuildSummaryAccumulating(list) ==
    LET start == IF summary = None THEN Acc(<<>>, 0, None, 0)
                 ELSE Acc(summary.by_provider, summary.total_amount_due,
                          summary.next_due_date, summary.overdue_count)
        acc == summary_loop(list, start)
    IN  [by_provider |-> acc.by_provider,
         total_amount_due |-> acc.total_amount,
         next_due_date |-> acc.next_due,
         overdue_count |-> acc.overdue]

\* amounts are cents, so round(total_amount, 2) keeps them
build_summary(list) ==
    LET acc == summary_loop(list, Acc(<<>>, 0, None, 0))
    IN  [by_provider |-> acc.by_provider,
         total_amount_due |-> acc.total_amount,
         next_due_date |-> acc.next_due,
         overdue_count |-> acc.overdue]

----------------------------------------------------------------------------
(* Inputs.                                                                 *)

RECURSIVE SetsUpTo(_, _)
\* the subsets of S with at most n elements
SetsUpTo(S, n) ==
    IF n = 0 THEN {{}}
    ELSE LET smaller == SetsUpTo(S, n - 1)
         IN  smaller \cup {b \cup {x} : b \in smaller, x \in S}

RECURSIVE SeqsUpTo(_, _)
\* the sequences over S of length at most n
SeqsUpTo(S, n) ==
    IF n = 0 THEN {<<>>}
    ELSE LET shorter == SeqsUpTo(S, n - 1)
         IN  shorter \cup {Append(q, x) : q \in shorter, x \in S}

\* bodies: at most MaxBodyLines lines, no label twice
Bodies == {b \in SetsUpTo(Lines, MaxBodyLines) :
              \A l1, l2 \in b : l1.label = l2.label => l1 = l2}

Subjects == {{}, {"Duke Energy"}, {"PSNC Energy"}}

ParseEmails ==
    {Email(PyStr(1), PyInt(1), "", "billing@acme-power.com", subject, body, PyStr(1)) :
        subject \in Subjects, body \in Bodies}

NoEmail == Email(None, None, "", "", {}, {}, None)
NoSummary == None
NoData == None
NoFetch == [kind |-> "", emails |-> <<>>]
NoSession == [failed_at |-> "", error |-> "", response |-> <<>>, pending |-> "", logouts |-> 0, logout_error |-> ""]
NoHassData == [domain |-> FALSE, coordinators |-> {}]
NoEntries == <<>>
NoCall == [op |-> "", entry_id |-> 0, ok |-> TRUE]

\* the day the structured parsers read from datetime.utcnow()
UtcToday == MaxDay - 1

----------------------------------------------------------------------------
(* One email through one extractor.                                        *)

InitParse ==
    /\ pc = "ready"
    /\ email \in ParseEmails
    /\ utc_today = 0 /\ local_today = 0
    /\ parser = "" /\ parsed = NoBill
    /\ emails = <<>> /\ faults = {} /\ bills = <<>>
    /\ max_messages = 1 /\ limited = <<>> /\ summary = NoSummary
    /\ data = NoData /\ last_update_success = TRUE
    /\ fetch = NoFetch /\ outcome = "" /\ now = 0
    /\ session = NoSession /\ hass_data = NoHassData /\ entries = NoEntries
    /\ operation = NoCall

\* the local date is the UTC date or a neighbour of it
LocalDates == {UtcToday - 1, UtcToday, UtcToday + 1}

\* a structured parser reads the UTC date during the call
ParseStructured(name, result) ==
    /\ pc = "ready"
    /\ pc' = "parsed"
    /\ parser' = name
    /\ utc_today' = UtcToday
    /\ parsed' = result
    /\ UNCHANGED <<session, hass_data, entries, operation,
                   email, local_today, emails, faults, bills, max_messages,
                   limited, summary, data, last_update_success, fetch, outcome,
                   now>>

ParseDuke == ParseStructured("duke_energy", parse_duke_energy(email, UtcToday))
ParsePsnc == ParseStructured("psnc_energy", parse_psnc_energy(email, UtcToday))
ParseRaleigh == ParseStructured("raleigh_water", parse_raleigh_water(email, UtcToday))

\* the generic parser reads the local date during the call
ParseGeneric ==
    /\ pc = "ready"
    /\ \E today \in LocalDates :
        /\ local_today' = today
        /\ parsed' = parse_generic_email(email, today)
    /\ pc' = "parsed"
    /\ parser' = "generic"
    /\ UNCHANGED <<session, hass_data, entries, operation,
                   email, utc_today, emails, faults, bills, max_messages, limited, summary,
                   data, last_update_success, fetch, outcome, now>>

NextParse == ParseDuke \/ ParsePsnc \/ ParseRaleigh \/ ParseGeneric

SpecParse == InitParse /\ [][NextParse]_vars

----------------------------------------------------------------------------
(* _limit_bills on a list of bill records.                                 *)

\* a record as an extractor builds it from an email with this identifier and
\* date; the other keys do not matter to _limit_bills
LimitBill(id, received) ==
    Bill(id, "Duke Energy", received, NoValue, None, NoValue, None, "due",
         NoValue, NoValue, None)

\* identifiers: none, or a message id; received: none, or an ISO timestamp
LimitIds == {None} \cup {PyStr(n) : n \in 1..2}
Stamps == {None} \cup {PyStr(n) : n \in 1..MaxStamp}
LimitBills == {LimitBill(id, received) : id \in LimitIds, received \in Stamps}

InitLimit ==
    /\ pc = "extracted"
    /\ bills \in SeqsUpTo(LimitBills, MaxBills)
    /\ max_messages \in 1..MaxLimit
    /\ email = NoEmail /\ utc_today = 0 /\ local_today = 0
    /\ parser = "" /\ parsed = NoBill
    /\ emails = <<>> /\ faults = {}
    /\ limited = <<>> /\ summary = NoSummary
    /\ data = NoData /\ last_update_success = TRUE
    /\ fetch = NoFetch /\ outcome = "" /\ now = 0
    /\ session = NoSession /\ hass_data = NoHassData /\ entries = NoEntries
    /\ operation = NoCall

\* limited_bills = self._limit_bills(bills)
LimitStep ==
    /\ pc = "extracted"
    /\ limited' = limit_bills(bills, max_messages)
    /\ pc' = "limited"
    /\ UNCHANGED <<session, hass_data, entries, operation,
                   email, utc_today, local_today, parser, parsed, emails, faults,
                   bills, max_messages, summary, data, last_update_success,
                   fetch, outcome, now>>

NextLimit == LimitStep

SpecLimit == InitLimit /\ [][NextLimit]_vars

\* self._limit_bills(limited_bills): _limit_bills on its own output
LimitAgain ==
    /\ pc = "limited"
    /\ limited' = limit_bills(limited, max_messages)
    /\ pc' = "relimited"
    /\ UNCHANGED <<session, hass_data, entries, operation,
                   email, utc_today, local_today, parser, parsed, emails, faults,
                   bills, max_messages, summary, data, last_update_success,
                   fetch, outcome, now>>

NextRelimit == LimitStep \/ LimitAgain

SpecRelimit == InitLimit /\ [][NextRelimit]_vars

----------------------------------------------------------------------------
(* extract_bills on a batch, then _limit_bills.                            *)

\* the texts of the batch: a Duke Energy bill, an email both registered
\* parsers claim, and an email with utility keywords and no provider marker
DispatchTexts ==
    {<<{"Duke Energy"},
       {Line("Account Number:", Val("123-456", 0, FALSE)),
        Line("Due Date:", Val("Month D, YYYY", 1, FALSE))}>>,
     <<{"Duke Energy"},
       {Phrase("PSNC Energy"),
        Line("Account Number:", Val("123-456", 0, FALSE)),
        Line("Account Ending In:", Val("****1234", 0, FALSE))}>>,
     <<{},
       {Phrase("Your statement is ready"),
        Line("Amount Due:", Val("$d.dd", 8550, FALSE))}>>}

\* <<message_id, uid>>: a message id, a uid alone, neither
DispatchIds == {<<PyStr(1), PyInt(1)>>, <<None, PyInt(2)>>, <<None, None>>}

DispatchEmails ==
    {Email(ids[1], ids[2], "", "billing@acme-power.com", text[1], text[2], PyStr(1)) :
        ids \in DispatchIds, text \in DispatchTexts}

ParserNames == {PARSERS[k] : k \in DOMAIN PARSERS}

InitDispatch ==
    /\ pc = "fetched"
    /\ emails \in SeqsUpTo(DispatchEmails, MaxEmails)
    /\ faults \in SetsUpTo((1..Len(emails)) \X ParserNames, MaxFaults)
    /\ max_messages \in 1..MaxLimit
    /\ email = NoEmail /\ utc_today = 0 /\ local_today = 0
    /\ parser = "" /\ parsed = NoBill
    /\ bills = <<>> /\ limited = <<>> /\ summary = NoSummary
    /\ data = NoData /\ last_update_success = TRUE
    /\ fetch = NoFetch /\ outcome = "" /\ now = 0
    /\ session = NoSession /\ hass_data = NoHassData /\ entries = NoEntries
    /\ operation = NoCall

\* bills = extract_bills(emails)
ExtractStep ==
    /\ pc = "fetched"
    /\ utc_today' = UtcToday
    /\ bills' = extract_bills(emails, faults, UtcToday)
    /\ pc' = "extracted"
    /\ UNCHANGED <<session, hass_data, entries, operation,
                   email, local_today, parser, parsed, emails, faults,
                   max_messages, limited, summary, data, last_update_success,
                   fetch, outcome, now>>

NextDispatch == ExtractStep \/ LimitStep

SpecDispatch == InitDispatch /\ [][NextDispatch]_vars

----------------------------------------------------------------------------
(* _build_summary on a deduplicated, sorted, limited list.                 *)

\* records without identifier and with one received value: _limit_bills
\* leaves a list of them as it is
SummaryBill(provider, amount_value, due_iso, status) ==
    Bill(None, provider, PyStr(1), NoValue, amount_value, NoValue, due_iso, status,
         NoValue, NoValue, None)

\* a due_date_iso that datetime.fromisoformat rejects.  No extractor writes
\* one (each takes due_date_iso from date.isoformat()); _min_iso_date
\* provides for it with its `except ValueError`.
InvalidIso == PyStr(MaxDay + 1)

SummaryBills ==
    {SummaryBill(provider, amount_value, due_iso, status) :
        provider \in {"Duke Energy", "PSNC Energy"},
        amount_value \in {None, PyFloat(8550), PyFloat(4000)},
        due_iso \in {None, PyStr(1), PyStr(MaxDay), InvalidIso},
        status \in {"due", "overdue"}}

InitSummary ==
    /\ pc = "limited"
    /\ limited \in SeqsUpTo(SummaryBills, MaxSummaryBills)
    /\ bills = limited
    /\ max_messages = MaxSummaryBills
    /\ email = NoEmail /\ utc_today = 0 /\ local_today = 0
    /\ parser = "" /\ parsed = NoBill
    /\ emails = <<>> /\ faults = {} /\ summary = NoSummary
    /\ data = NoData /\ last_update_success = TRUE
    /\ fetch = NoFetch /\ outcome = "" /\ now = 0
    /\ session = NoSession /\ hass_data = NoHassData /\ entries = NoEntries
    /\ operation = NoCall

\* summary = self._build_summary(limited_bills)
SummaryStep ==
    /\ pc = "limited"
    /\ summary' = build_summary(limited)
    /\ pc' = "summarised"
    /\ UNCHANGED <<session, hass_data, entries, operation,
                   email, utc_today, local_today, parser, parsed, emails, faults,
                   bills, max_messages, limited, data, last_update_success,
                   fetch, outcome, now>>

\* _build_summary a second time on the same list
SummaryAgain ==
    /\ pc = "summarised"
    /\ summary' = build_summary(limited)
    /\ pc' = "resummarised"
    /\ UNCHANGED <<session, hass_data, entries, operation,
                   email, utc_today, local_today, parser, parsed, emails, faults,
                   bills, max_messages, limited, data, last_update_success,
                   fetch, outcome, now>>

NextSummary == SummaryStep \/ SummaryAgain

SpecSummary == InitSummary /\ [][NextSummary]_vars

----------------------------------------------------------------------------
(* The poll cycle: _async_update_data, called by the DataUpdateCoordinator,*)
(* which publishes a returned dict as coordinator.data and on UpdateFailed *)
(* keeps the data it has and clears last_update_success.                   *)

PollEmails ==
    {Email(PyStr(1), PyInt(1), "", "billing@acme-power.com", text[1], text[2], PyStr(1)) :
        text \in DispatchTexts}
    \cup {Email(None, PyInt(2), "", "billing@acme-power.com", {"Duke Energy"},
                {Line("Amount Due:", Val("$d.dd", 4000, FALSE))}, PyStr(MaxStamp))}

\* what _fetch_emails meets: the messages of the mailbox, an IMAPClientError
\* (login, select_folder, search or fetch), or another exception (the
\* connection cannot be opened)
FetchOutcomes ==
    {[kind |-> "emails", emails |-> batch] : batch \in SeqsUpTo(PollEmails, MaxEmails)}
    \cup {[kind |-> "IMAPClientError", emails |-> <<>>],
          [kind |-> "Exception", emails |-> <<>>]}

\* _fetch_emails: the emails, or the exception it leaves with
fetch_emails(io) ==
    IF io.kind = "emails" THEN [raised |-> "", emails |-> io.emails]
    ELSE IF io.kind = "IMAPClientError" THEN [raised |-> "UpdateFailed", emails |-> <<>>]
    ELSE [raised |-> io.kind, emails |-> <<>>]

Result(limited_bills, at) ==
    [bills |-> limited_bills, summary |-> build_summary(limited_bills),
     count |-> Len(limited_bills), last_update |-> at]

\* `except Exception` left with an empty result instead of raising
AsyncUpdateDataEmptyOnError(io, maximum, at) ==
    LET fetched == fetch_emails(io)
    IN  IF fetched.raised # ""
        THEN [raised |-> "", result |-> Result(<<>>, at)]
        ELSE [raised |-> "",
              result |-> Result(limit_bills(extract_bills(fetched.emails, {}, UtcToday),
                                            maximum), at)]

\* the summary built from the extracted list, not the limited one
AsyncUpdateDataSummaryOfAll(io, maximum, at) ==
    LET fetched == fetch_emails(io)
        extracted == extract_bills(fetched.emails, {}, UtcToday)
        limited_bills == limit_bills(extracted, maximum)
    IN  IF fetched.raised # ""
        THEN [raised |-> "UpdateFailed", result |-> NoData]
        ELSE [raised |-> "",
              result |-> [bills |-> limited_bills, summary |-> build_summary(extracted),
                          count |-> Len(limited_bills), last_update |-> at]]

\* _async_update_data: the dict it returns, or the exception it raises
async_update_data(io, maximum, at) ==
    LET fetched == fetch_emails(io)
    IN  IF fetched.raised # ""
        THEN [raised |-> "UpdateFailed", result |-> NoData]
        ELSE [raised |-> "",
              result |-> Result(limit_bills(extract_bills(fetched.emails, {}, UtcToday),
                                            maximum), at)]

Init ==
    /\ pc = "idle"
    /\ max_messages \in 1..MaxLimit
    /\ email = NoEmail /\ utc_today = UtcToday /\ local_today = 0
    /\ parser = "" /\ parsed = NoBill
    /\ emails = <<>> /\ faults = {} /\ bills = <<>>
    /\ limited = <<>> /\ summary = NoSummary
    /\ data = NoData /\ last_update_success = TRUE
    /\ fetch = NoFetch /\ outcome = "" /\ now = 0
    /\ session = NoSession /\ hass_data = NoHassData /\ entries = NoEntries
    /\ operation = NoCall

\* one poll cycle
Refresh ==
    /\ now < MaxNow
    /\ now' = now + 1
    /\ pc' = "polled"
    /\ \E io \in FetchOutcomes :
        LET call == async_update_data(io, max_messages, now + 1)
        IN  /\ fetch' = io
            /\ IF call.raised = ""
               THEN /\ outcome' = "returned"
                    /\ data' = call.result
                    /\ last_update_success' = TRUE
                    /\ emails' = io.emails
                    /\ bills' = extract_bills(io.emails, {}, UtcToday)
                    /\ limited' = call.result.bills
                    /\ summary' = call.result.summary
               ELSE /\ outcome' = call.raised
                    /\ last_update_success' = FALSE
                    /\ UNCHANGED <<data, emails, bills, limited, summary>>
    /\ UNCHANGED <<session, hass_data, entries, operation,
                   email, utc_today, local_today, parser, parsed, faults,
                   max_messages>>

Next == Refresh

Spec == Init /\ [][Next]_vars

----------------------------------------------------------------------------
(* _fetch_emails, call by call on the IMAP client it has constructed.      *)

\* a message of the response without RFC822 part, or one parse_from_bytes
\* rejects: the loop goes on to the next message
Unparsable == [raw |-> "unparsable"]

Responses == SeqsUpTo(PollEmails \cup {Unparsable}, MaxEmails)

\* the emails list the loop builds from the response
collect(response) == SelectSeq(response, LAMBDA message : message # Unparsable)

\* IMAPClientError, or an exception of another class (a socket error)
FetchErrors == {"IMAPClientError", "OSError"}

\* `except IMAPClientError as err: raise UpdateFailed(...) from err`: the
\* exception the function is about to leave with
except_clause(error) == IF error = "IMAPClientError" THEN "UpdateFailed" ELSE error

\* the logout's exception left to propagate: no `except Exception: pass`
FinallyClauseRaises(pending, logout_error) ==
    IF logout_error = "" THEN pending ELSE logout_error

\* `finally: try: server.logout() except Exception: pass`: what the function
\* leaves with after it
finally_clause(pending, logout_error) == pending

InitFetch ==
    /\ pc = "constructed"
    /\ email = NoEmail /\ utc_today = 0 /\ local_today = 0
    /\ parser = "" /\ parsed = NoBill
    /\ emails = <<>> /\ faults = {} /\ bills = <<>>
    /\ max_messages = 1 /\ limited = <<>> /\ summary = NoSummary
    /\ data = NoData /\ last_update_success = TRUE
    /\ fetch = NoFetch /\ outcome = "" /\ now = 0
    /\ session = NoSession /\ hass_data = NoHassData /\ entries = NoEntries
    /\ operation = NoCall

\* a call of the try block raises
CallFails(at, error) ==
    /\ pc = at
    /\ session' = [session EXCEPT !.failed_at = at, !.error = error,
                                  !.pending = except_clause(error)]
    /\ pc' = "finally"
    /\ UNCHANGED emails

\* a call of the try block returns
CallReturns(at, next) ==
    /\ pc = at
    /\ pc' = next
    /\ UNCHANGED <<session, emails>>

FetchFrame ==
    UNCHANGED <<email, utc_today, local_today, parser, parsed, faults, bills,
                max_messages, limited, summary, data, last_update_success,
                fetch, now, hass_data, entries, operation>>

\* server.login(username, password)
Login ==
    /\ \/ CallReturns("constructed", "logged_in")
       \/ \E error \in FetchErrors : CallFails("constructed", error)
    /\ UNCHANGED outcome
    /\ FetchFrame

\* server.select_folder(folder, readonly=True)
SelectFolder ==
    /\ \/ CallReturns("logged_in", "selected")
       \/ \E error \in FetchErrors : CallFails("logged_in", error)
    /\ UNCHANGED outcome
    /\ FetchFrame

\* message_ids = server.search(search_flag); if not message_ids: return emails
Search ==
    /\ \/ CallReturns("selected", "searched")
       \/ /\ pc = "selected"
          /\ session' = [session EXCEPT !.pending = "returned"]
          /\ pc' = "finally"
          /\ UNCHANGED emails
       \/ \E error \in FetchErrors : CallFails("selected", error)
    /\ UNCHANGED outcome
    /\ FetchFrame

\* response = server.fetch(message_ids, ["RFC822"]), the loop, return emails
FetchMessages ==
    /\ \/ /\ pc = "searched"
          /\ \E response \in Responses :
                /\ session' = [session EXCEPT !.response = response, !.pending = "returned"]
                /\ emails' = collect(response)
          /\ pc' = "finally"
       \/ \E error \in FetchErrors : CallFails("searched", error)
    /\ UNCHANGED outcome
    /\ FetchFrame

\* the finally clause, then the function is left
Logout ==
    /\ pc = "finally"
    /\ \E logout_error \in {""} \cup FetchErrors :
        /\ session' = [session EXCEPT !.logouts = session.logouts + 1,
                                      !.logout_error = logout_error]
        /\ outcome' = finally_clause(session.pending, logout_error)
    /\ pc' = "exited"
    /\ UNCHANGED emails
    /\ FetchFrame

NextFetch == Login \/ SelectFolder \/ Search \/ FetchMessages \/ Logout

SpecFetch == InitFetch /\ [][NextFetch]_vars

----------------------------------------------------------------------------
(* __init__.py: async_setup, async_setup_entry, async_unload_entry.  A     *)
(* coordinator is known by the id of its entry.                            *)

EntryIds == 1..MaxEntries

\* an operation: its name, its entry, and whether the awaited call it
\* depends on succeeded (the first refresh for a setup, the platform unload
\* for an unload)
Call(op, entry_id, ok) == [op |-> op, entry_id |-> entry_id, ok |-> ok]

\* hass.data[DOMAIN][entry.entry_id] = coordinator ahead of the first refresh
SetupEntryRegistersFirst(hass, entry_id, refresh_ok) ==
    [domain |-> TRUE, coordinators |-> hass.coordinators \cup {entry_id}]

\* hass.data after async_setup_entry: setdefault(DOMAIN, {}), then the first
\* refresh, which raises when it fails, then the registration
setup_entry(hass, entry_id, refresh_ok) ==
    IF refresh_ok
    THEN [domain |-> TRUE, coordinators |-> hass.coordinators \cup {entry_id}]
    ELSE [domain |-> TRUE, coordinators |-> hass.coordinators]

\* hass.data after async_unload_entry
unload_entry(hass, entry_id, unload_ok) ==
    IF ~unload_ok THEN hass
    ELSE IF hass.domain /\ hass.coordinators # {} /\ entry_id \in hass.coordinators
         THEN LET domain_data == hass.coordinators \ {entry_id}
              IN  IF domain_data = {} THEN [domain |-> FALSE, coordinators |-> {}]
                  ELSE [domain |-> TRUE, coordinators |-> domain_data]
    ELSE hass

InitSetup ==
    /\ pc = "started"
    /\ hass_data = NoHassData
    /\ entries = [e \in EntryIds |-> [forwarded |-> FALSE, refreshed |-> FALSE]]
    /\ operation = NoCall
    /\ email = NoEmail /\ utc_today = 0 /\ local_today = 0
    /\ parser = "" /\ parsed = NoBill
    /\ emails = <<>> /\ faults = {} /\ bills = <<>>
    /\ max_messages = 1 /\ limited = <<>> /\ summary = NoSummary
    /\ data = NoData /\ last_update_success = TRUE
    /\ fetch = NoFetch /\ outcome = "" /\ now = 0
    /\ session = NoSession

SetupFrame ==
    UNCHANGED <<email, utc_today, local_today, parser, parsed, emails, faults,
                bills, max_messages, limited, summary, data, last_update_success,
                fetch, now, session>>

\* async_setup: hass.data.setdefault(DOMAIN, {})
AsyncSetup ==
    /\ pc = "started"
    /\ pc' = "running"
    /\ hass_data' = [hass_data EXCEPT !.domain = TRUE]
    /\ operation' = Call("async_setup", 0, TRUE)
    /\ outcome' = "True"
    /\ UNCHANGED entries
    /\ SetupFrame

\* async_setup_entry: the first refresh fails (ConfigEntryNotReady), or it
\* succeeds and the platform forward fails, or both succeed
AsyncSetupEntry ==
    /\ pc = "running"
    /\ \E e \in EntryIds, refresh_ok \in BOOLEAN, forward_ok \in BOOLEAN :
        /\ operation' = Call("setup", e, refresh_ok)
        /\ hass_data' = setup_entry(hass_data, e, refresh_ok)
        /\ entries' = [entries EXCEPT ![e] =
                          IF refresh_ok
                          THEN [forwarded |-> forward_ok, refreshed |-> TRUE]
                          ELSE entries[e]]
        /\ outcome' = IF ~refresh_ok THEN "ConfigEntryNotReady"
                      ELSE IF ~forward_ok THEN "Exception"
                      ELSE "True"
    /\ UNCHANGED pc
    /\ SetupFrame

\* async_unload_entry
AsyncUnloadEntry ==
    /\ pc = "running"
    /\ \E e \in EntryIds, unload_ok \in BOOLEAN :
        /\ operation' = Call("unload", e, unload_ok)
        /\ hass_data' = unload_entry(hass_data, e, unload_ok)
        /\ entries' = [entries EXCEPT ![e] =
                          IF unload_ok
                          THEN [forwarded |-> FALSE, refreshed |-> FALSE]
                          ELSE entries[e]]
        /\ outcome' = IF unload_ok THEN "True" ELSE "False"
    /\ UNCHANGED pc
    /\ SetupFrame

NextSetup == AsyncSetup \/ AsyncSetupEntry \/ AsyncUnloadEntry

SpecSetup == InitSetup /\ [][NextSetup]_vars

----------------------------------------------------------------------------
(* Claims about _limit_bills (SpecLimit).                                  *)

\* the identifiers of the input that are not null
InputIds == {bills[i].id : i \in DOMAIN bills} \ {None}

\* the first record of the input carrying the identifier
FirstWith(id) ==
    bills[CHOOSE i \in DOMAIN bills :
            bills[i].id = id /\ \A j \in 1..(i - 1) : bills[j].id # id]

\* where the output carries the identifier
OutputWith(id) == {k \in DOMAIN limited : limited[k].id = id}

\* the records deduplication leaves: every record without an identifier, and
\* the first record of each identifier
UniqueCount ==
    Cardinality({i \in DOMAIN bills :
        bills[i].id = None \/ \A j \in 1..(i - 1) : bills[j].id # bills[i].id})

Min(a, b) == IF a <= b THEN a ELSE b

\* C1 as stated: the output holds exactly one record per distinct non-null
\* identifier of the input, the first record carrying it.
C1_ExactlyOnePerId ==
    pc = "limited" =>
        \A id \in InputIds :
            /\ Cardinality(OutputWith(id)) = 1
            /\ \A k \in OutputWith(id) : limited[k] = FirstWith(id)

\* C1 amended: the output holds at most one record per distinct non-null
\* identifier of the input, and that record is the first one carrying it; it
\* holds exactly one per identifier when the deduplicated records do not
\* outnumber the configured maximum.
C1_AtMostOnePerId ==
    pc = "limited" =>
        \A id \in InputIds :
            /\ Cardinality(OutputWith(id)) <= 1
            /\ \A k \in OutputWith(id) : limited[k] = FirstWith(id)
            /\ UniqueCount <= max_messages => Cardinality(OutputWith(id)) = 1

\* C1 witness: an identifier carried by two different records, its first record
\* kept, and another identifier lost to the truncation
C1_Witness ==
    /\ pc = "limited"
    /\ \E i, j \in DOMAIN bills :
        /\ i < j /\ bills[i].id = bills[j].id /\ bills[i].id # None
        /\ bills[i] # bills[j]
        /\ \E k \in DOMAIN limited : limited[k] = bills[i]
    /\ \E id \in InputIds : OutputWith(id) = {}

\* C2: the output is never longer than the maximum, and its length is
\* min(unique_count, max).
C2_LengthIsMin ==
    pc = "limited" =>
        /\ Len(limited) <= max_messages
        /\ Len(limited) = Min(UniqueCount, max_messages)

\* C2 witness: duplicates were dropped and the rest was still truncated; the
\* other case, fewer records than the maximum, is C2_WitnessFewer
C2_Witness ==
    /\ pc = "limited"
    /\ UniqueCount < Len(bills)
    /\ max_messages < UniqueCount
    /\ Len(limited) = max_messages

C2_WitnessFewer ==
    /\ pc = "limited"
    /\ bills # <<>>
    /\ Len(limited) < max_messages

\* the received value as the sort sees it: missing is the empty string
ReceivedRank(bill) == IF bill.received = None THEN 0 ELSE bill.received.v

\* C3: adjacent records of the output are in descending order of received,
\* a missing value counting as the empty string.
C3_SortedDescending ==
    pc = "limited" =>
        \A k \in 1..(Len(limited) - 1) :
            ReceivedRank(limited[k]) >= ReceivedRank(limited[k + 1])

\* C3 witness: the input began with a record without received and went on
\* ascending; the output ends with the record without received
C3_Witness ==
    /\ pc = "limited"
    /\ Len(bills) >= 3 /\ Len(limited) >= 3
    /\ bills[1].received = None
    /\ ReceivedRank(bills[2]) < ReceivedRank(bills[3])
    /\ limited[Len(limited)].received = None
    /\ ReceivedRank(limited[1]) > ReceivedRank(limited[2])

----------------------------------------------------------------------------
(* Claims about one extractor (SpecParse).                                 *)

\* the date the extractor that ran compared the due date with
CurrentDate == IF parser = "generic" THEN local_today ELSE utc_today

PastDueRecord ==
    /\ pc = "parsed"
    /\ IsBill(parsed)
    /\ Truthy(parsed.due_date_iso)
    /\ parsed.due_date_iso.v < CurrentDate

\* the text the generic parser looks for status phrases in
EmailText == Combined(email, email.body)

\* a "paid" phrase and no "overdue" phrase before it in STATUS_HINTS
PaidHintWins ==
    /\ Contains(EmailText, "paid") \/ Contains(EmailText, "payment received")
    /\ ~Contains(EmailText, "past due")
    /\ ~Contains(EmailText, "overdue")
    /\ ~Contains(EmailText, "late fee")

\* C4 as stated: a record of any extractor whose due_date_iso is strictly
\* before the current date has status overdue.
C4_PastDueIsOverdue == PastDueRecord => parsed.status = "overdue"

\* C4 amended: a record whose due_date_iso is strictly before the current date
\* (the UTC date for the structured extractors, the local date for the generic
\* one) has status overdue, except that the generic extractor gives paid when
\* the text holds a paid phrase and no overdue phrase; it is never due.
C4_PastDueNeverDue ==
    PastDueRecord =>
        IF parser = "generic" /\ PaidHintWins
        THEN parsed.status = "paid"
        ELSE parsed.status = "overdue"

\* C4 witness: the generic extractor on a past-due email saying "Paid in full",
\* and a structured extractor on a past-due email
C4_Witness == PastDueRecord /\ parser = "generic" /\ parsed.status = "paid"

\* C5: a record is emitted only if an account number, an amount, a due date
\* or a billing date was located.
C5_RecordHasFact ==
    (pc = "parsed" /\ IsBill(parsed)) =>
        \/ Found(parsed.account_number)
        \/ Found(parsed.amount_due)
        \/ Found(parsed.due_date)
        \/ Found(parsed.billing_date)

----------------------------------------------------------------------------
(* Claims about extract_bills (SpecDispatch).                              *)

Extracted == pc \in {"extracted", "limited"}

\* the calls that return a record: they do not raise, and the parser finds a bill
Yielding ==
    {call \in (DOMAIN emails) \X (DOMAIN PARSERS) :
        /\ <<call[1], PARSERS[call[2]]>> \notin faults
        /\ IsBill(CallParser(PARSERS[call[2]], emails[call[1]], utc_today))}

\* email order, then registration order
Before(c, d) == c[1] < d[1] \/ (c[1] = d[1] /\ c[2] <= d[2])

\* the place of a yielding call among the yielding calls
Place(call) == Cardinality({c \in Yielding : Before(c, call)})

\* C6: a raising call contributes nothing and stops nothing: the records
\* returned are exactly those of the other calls, in email order, then
\* registration order.
C6_FaultIsolated ==
    Extracted =>
        /\ Len(bills) = Cardinality(Yielding)
        /\ \A call \in Yielding :
            bills[Place(call)] = CallParser(PARSERS[call[2]], emails[call[1]], utc_today)

\* C6 witness: the first parser raises on the first email; the second parser's
\* record for that email and a record of the next email are returned
C6_Witness ==
    /\ Extracted
    /\ Len(emails) = 2
    /\ faults = {<<1, PARSERS[1]>>}
    /\ <<1, 2>> \in Yielding
    /\ <<2, 1>> \in Yielding
    /\ Len(bills) >= 2

\* both registered parsers claim email i
BothClaim(i) == <<i, 1>> \in Yielding /\ <<i, 2>> \in Yielding

EmailId(i) == PyOr(emails[i].message_id, emails[i].uid)

\* C7 as stated: an email both parsers claim gives two records in the output of
\* extract_bills and, with a maximum of at least 2, two records after
\* _limit_bills.
C7_BothRecordsKept ==
    (pc = "limited" /\ Len(emails) = 1 /\ BothClaim(1) /\ max_messages >= 2) =>
        /\ Len(bills) = 2
        /\ Len(limited) = 2

\* C7 amended: extract_bills returns both records, the first registered
\* parser's first, both with the email's identifier; with a maximum of at least
\* 2, _limit_bills keeps both only when that identifier is null and else keeps
\* the first (Duke Energy) record alone.
C7_SecondRecordDeduplicated ==
    (pc = "limited" /\ Len(emails) = 1 /\ BothClaim(1) /\ max_messages >= 2) =>
        /\ Len(bills) = 2
        /\ bills[1].provider = "Duke Energy" /\ bills[2].provider = "PSNC Energy"
        /\ bills[1].id = EmailId(1) /\ bills[2].id = EmailId(1)
        /\ IF Truthy(EmailId(1)) THEN limited = <<bills[1]>> ELSE limited = bills

\* C7 witness: one email with a message id, claimed by both parsers, of which
\* one record is left
C7_Witness ==
    /\ pc = "limited" /\ Len(emails) = 1 /\ BothClaim(1) /\ max_messages >= 2
    /\ Truthy(EmailId(1))
    /\ Len(limited) = 1

\* no marker of a specific extractor in subject + body
NoProviderMarker(e) ==
    LET text == Combined(e, normalize(e.body))
    IN  /\ ~Contains(text, "duke energy")
        /\ \A i \in DOMAIN PSNC_IDENTIFIERS : ~Contains(text, PSNC_IDENTIFIERS[i])
        /\ ~(Contains(text, "raleigh") /\ Contains(text, "utility bill"))

HasUtilityKeyword(e) ==
    \E i \in DOMAIN UTILITY_KEYWORDS : Contains(Combined(e, e.body), UTILITY_KEYWORDS[i])

\* C8: an email without provider marker and with a utility keyword, none of
\* whose parser calls raises, has the generic extractor's record in the
\* output of extract_bills.
C8_GenericFallback ==
    Extracted =>
        \A i \in DOMAIN emails :
            (/\ NoProviderMarker(emails[i])
             /\ HasUtilityKeyword(emails[i])
             /\ \A name \in ParserNames : <<i, name>> \notin faults)
            => \E n \in DOMAIN bills, today \in LocalDates :
                   bills[n] = parse_generic_email(emails[i], today)

----------------------------------------------------------------------------
(* Claims about _build_summary (SpecSummary).                              *)

----------------------------------------------------------------------------
(* Claims about the poll cycle (Spec).                                     *)

\* C10: a cycle whose mail fetch fails ends with UpdateFailed and publishes
\* nothing: the data of the cycle before stays as it is.
C10_FetchFailureIsHard ==
    [][(now' # now /\ fetch'.kind # "emails")
          => (/\ outcome' = "UpdateFailed"
              /\ data' = data
              /\ last_update_success' = FALSE)]_vars

\* C10 witness: a failed cycle after a cycle that published bills
C10_Witness ==
    /\ outcome = "UpdateFailed"
    /\ fetch.kind = "IMAPClientError"
    /\ data # NoData
    /\ data.count > 0
    /\ data.last_update < now

----------------------------------------------------------------------------
(* Claims about the identification step (SpecParse).                       *)

\* subject + normalized body, the text a provider extractor looks for its
\* markers in
MarkerText == Combined(email, normalize(email.body))

\* the markers of the extractor that ran are in the text
MarkersPresent ==
    CASE parser = "duke_energy" -> Contains(MarkerText, "duke energy")
      [] parser = "psnc_energy" ->
            \E i \in DOMAIN PSNC_IDENTIFIERS : Contains(MarkerText, PSNC_IDENTIFIERS[i])
      [] parser = "raleigh_water" ->
            Contains(MarkerText, "raleigh") /\ Contains(MarkerText, "utility bill")
      [] OTHER -> HasUtilityKeyword(email)

\* C11: an extractor whose markers are absent from the email returns no record
\* (for the generic extractor the markers are the utility keywords, looked for
\* in subject + body), and an email with no marker of any provider extractor
\* and no utility keyword gives an empty list from extract_bills.
C11_GateClosed ==
    pc = "parsed" =>
        /\ ~MarkersPresent => parsed = NoBill
        /\ (NoProviderMarker(email) /\ ~HasUtilityKeyword(email))
              => extract_bills(<<email>>, {}, utc_today) = <<>>

\* C11 witness: the Duke Energy extractor on an email that carries an account
\* number but no Duke Energy marker, and no utility keyword either
C11_Witness ==
    /\ pc = "parsed" /\ parser = "duke_energy"
    /\ ~MarkersPresent
    /\ NoProviderMarker(email) /\ ~HasUtilityKeyword(email)
    /\ \E ln \in email.body : ln.label = "Account Number:" /\ ln.value.kind = "123-456"
    /\ parsed = NoBill

----------------------------------------------------------------------------
(* Claims about parse_duke_energy (SpecParse).                             *)

\* the value that follows the label in the body of the email, NoValue if the
\* label is not there
Labeled(label) ==
    IF \E ln \in email.body : ln.label = label
    THEN (CHOOSE ln \in email.body : ln.label = label).value
    ELSE NoValue

\* an email identified as Duke Energy with an account number of digits and
\* dashes, a dollar amount and a due date in one of the calendar formats
DukeBillEmail ==
    /\ Contains(MarkerText, "duke energy")
    /\ Labeled("Account Number:").kind = "123-456"
    /\ Labeled("Amount Due:").kind = "$d.dd"
    /\ Labeled("Due Date:").kind \in {"Month D, YYYY", "MM/DD/YYYY"}

\* C12: for such an email parse_duke_energy returns a record whose
\* account_number, amount_due_value and due_date_iso are the labeled values,
\* also when other text follows the due date.
C12_DukeLabeledFields ==
    (pc = "parsed" /\ parser = "duke_energy" /\ DukeBillEmail) =>
        /\ IsBill(parsed)
        /\ parsed.provider = "Duke Energy"
        /\ parsed.account_number = Val("123-456", Labeled("Account Number:").n, FALSE)
        /\ parsed.amount_due_value = PyFloat(Labeled("Amount Due:").n)
        /\ parsed.due_date_iso = PyStr(Labeled("Due Date:").n)

\* C12 witness: the three fields, the due date followed by other text
C12_Witness ==
    /\ pc = "parsed" /\ parser = "duke_energy" /\ DukeBillEmail
    /\ Labeled("Due Date:").tail
    /\ IsBill(parsed)
    /\ parsed.amount_due_value = PyFloat(8550)
    /\ parsed.due_date_iso = PyStr(1)

----------------------------------------------------------------------------
(* Claims about _limit_bills, continued (SpecLimit).                       *)

\* how often a record occurs in a list
Count(list, b) == Cardinality({i \in DOMAIN list : list[i] = b})

\* the records of the input without identifier
NullIdRecords == {bills[i] : i \in {j \in DOMAIN bills : bills[j].id = None}}

\* how many records the truncation removed
Truncated == UniqueCount - Len(limited)

\* C13: a record without identifier is never removed as a duplicate: it occurs
\* in the output as often as in the input, less at most the number of records
\* the truncation removed.
C13_NullIdNeverDeduplicated ==
    pc = "limited" =>
        \A b \in NullIdRecords :
            /\ Count(limited, b) <= Count(bills, b)
            /\ Count(bills, b) - Count(limited, b) <= Truncated
            /\ max_messages >= Len(bills) => Count(limited, b) = Count(bills, b)

\* C13 witness: the same record without identifier twice in the input and
\* twice in the output
C13_Witness ==
    /\ pc = "limited"
    /\ \E b \in NullIdRecords : Count(bills, b) >= 2 /\ Count(limited, b) = Count(bills, b)

----------------------------------------------------------------------------
(* Claims about the summary's figures (SpecSummary).                       *)

Summarised == pc \in {"summarised", "resummarised"}

\* the records of the limited list that have a due_date_iso
Dated == {i \in DOMAIN limited : Truthy(limited[i].due_date_iso)}

FirstDated == CHOOSE i \in Dated : \A j \in Dated : i <= j

\* the days of the due dates that parse
ValidDays == {limited[i].due_date_iso.v : i \in {j \in Dated : IsoValid(limited[j].due_date_iso)}}

Earliest == PyStr(CHOOSE d \in ValidDays : \A other \in ValidDays : d <= other)

Reverse(list) == [i \in DOMAIN list |-> list[Len(list) + 1 - i]]

Numeric == {i \in DOMAIN limited : limited[i].amount_due_value.t \in {"int", "float"}}

RECURSIVE SumOver(_)
\* the sum of amount_due_value over the records at the indices I
SumOver(I) ==
    IF I = {} THEN 0
    ELSE LET i == CHOOSE k \in I : TRUE
         IN  limited[i].amount_due_value.v + SumOver(I \ {i})

\* C15: total_amount_due is the sum of amount_due_value over the records whose
\* amount_due_value is numeric, and 0 when there is none.
C15_TotalIsSumOfNumeric ==
    Summarised =>
        /\ summary.total_amount_due = SumOver(Numeric)
        /\ Numeric = {} => summary.total_amount_due = 0

\* C15 witness: two different amounts, in a list of two
C15_Witness ==
    /\ pc = "summarised"
    /\ Len(limited) = 2
    /\ limited[1].amount_due_value = PyFloat(8550)
    /\ limited[2].amount_due_value = PyFloat(4000)
    /\ summary.total_amount_due = 12550

\* C15 witness of the other case: a record without amount beside one with
C15_WitnessNull ==
    /\ pc = "summarised"
    /\ Len(limited) = 2
    /\ limited[1].amount_due_value = None
    /\ limited[2].amount_due_value = PyFloat(4000)
    /\ summary.total_amount_due = 4000

\* the records of the limited list that are overdue
Overdue == {i \in DOMAIN limited : limited[i].status = "overdue"}

\* C17: overdue_count is the number of records of the limited list whose
\* status is overdue, and is at most the number of records.
C17_OverdueCount ==
    Summarised =>
        /\ summary.overdue_count = Cardinality(Overdue)
        /\ summary.overdue_count <= Len(limited)

\* C17 witness: one overdue record beside one that is due
C17_Witness ==
    /\ pc = "summarised"
    /\ Len(limited) = 2
    /\ Cardinality(Overdue) = 1
    /\ summary.overdue_count = 1

----------------------------------------------------------------------------
(* Claims about the published result (Spec).                               *)

\* the providers of the published records
PublishedProviders == {data.bills[i].provider : i \in DOMAIN data.bills}

RECURSIVE SumCounts(_, _)
\* the sum of the counts of the mapping over the keys K
SumCounts(by_provider, K) ==
    IF K = {} THEN 0
    ELSE LET p == CHOOSE k \in K : TRUE
         IN  by_provider[p] + SumCounts(by_provider, K \ {p})

\* C16: by_provider has as keys the providers of the published (limited)
\* records and maps each to the number of those records with that provider; its
\* counts sum to the published count, so a record removed by deduplication or
\* truncation is not counted.
C16_ByProviderOfLimited ==
    data # NoData =>
        LET by_provider == data.summary.by_provider
        IN  /\ DOMAIN by_provider = PublishedProviders
            /\ \A p \in PublishedProviders :
                  by_provider[p] = Cardinality({i \in DOMAIN data.bills : data.bills[i].provider = p})
            /\ SumCounts(by_provider, DOMAIN by_provider) = data.count
            /\ data.count = Len(data.bills)

\* C16 witness: a cycle in which extract_bills returned more records than
\* were published, of two providers
C16_Witness ==
    /\ outcome = "returned"
    /\ data.bills = limited
    /\ Len(bills) > Len(limited)
    /\ \E i, j \in DOMAIN bills : bills[i].provider # bills[j].provider
    /\ data.count >= 1

----------------------------------------------------------------------------
(* Claims about the status (SpecParse).                                    *)

Structured == parser \in {"duke_energy", "psnc_energy", "raleigh_water"}

\* the label whose date the extractor that ran takes as the due date
DueLabel == IF parser = "psnc_energy" THEN "Date of Bank Draft:" ELSE "Due Date:"

\* the labeled due date resolves to a calendar day
Resolves == Labeled(DueLabel).kind \in {"Month D, YYYY", "MM/DD/YYYY"}

\* C18: a record of a structured extractor has due_date_iso null and status due
\* when the labeled due date is missing or does not resolve, status overdue
\* when it resolves to a day strictly before the UTC date, status due when it
\* resolves to that day or a later one; the status is never paid.
C18_StatusFromDueDate ==
    (pc = "parsed" /\ Structured /\ IsBill(parsed)) =>
        /\ parsed.due_date_iso = IF Resolves THEN PyStr(Labeled(DueLabel).n) ELSE None
        /\ parsed.status = IF Resolves /\ Labeled(DueLabel).n < utc_today
                           THEN "overdue" ELSE "due"
        /\ parsed.status # "paid"

\* C18 witness: a due date on the current UTC date, status due
C18_Witness ==
    /\ pc = "parsed" /\ parser = "raleigh_water" /\ IsBill(parsed)
    /\ parsed.due_date_iso = PyStr(utc_today)
    /\ parsed.status = "due"

\* C18 witness of the other cases: "TBD", and a due date in the past
C18_WitnessUnparsable ==
    /\ pc = "parsed" /\ parser = "duke_energy" /\ IsBill(parsed)
    /\ Labeled("Due Date:").kind = "TBD"
    /\ parsed.due_date_iso = None
    /\ parsed.status = "due"

C18_WitnessPast ==
    /\ pc = "parsed" /\ parser = "psnc_energy" /\ IsBill(parsed)
    /\ Truthy(parsed.due_date_iso)
    /\ parsed.due_date_iso.v < utc_today
    /\ parsed.status = "overdue"

\* the text holds a phrase the table maps to overdue, to paid
OverdueHint ==
    Contains(EmailText, "past due") \/ Contains(EmailText, "overdue")
        \/ Contains(EmailText, "late fee")

PaidHint == Contains(EmailText, "paid") \/ Contains(EmailText, "payment received")

\* C19: a record of the generic extractor has the status of the first phrase of
\* the table the text holds, the overdue phrases coming before the paid ones,
\* whatever the due date; without any phrase the due date decides.
C19_HintBeforeDueDate ==
    (pc = "parsed" /\ parser = "generic" /\ IsBill(parsed)) =>
        parsed.status =
            IF OverdueHint THEN "overdue"
            ELSE IF PaidHint THEN "paid"
            ELSE IF Truthy(parsed.due_date_iso) /\ parsed.due_date_iso.v < local_today
                 THEN "overdue"
            ELSE "due"

\* C19 witness: "Past Due" and "Paid in full" in an email whose due date is
\* still ahead
C19_Witness ==
    /\ pc = "parsed" /\ parser = "generic" /\ IsBill(parsed)
    /\ OverdueHint /\ PaidHint
    /\ Truthy(parsed.due_date_iso)
    /\ parsed.due_date_iso.v > local_today
    /\ parsed.status = "overdue"

----------------------------------------------------------------------------
(* Claims about the truncation (SpecLimit).                                *)

\* the places of the input whose records the deduplication leaves
DedupedPlaces ==
    {i \in DOMAIN bills :
        bills[i].id = None \/ \A j \in 1..(i - 1) : bills[j].id # bills[i].id}

\* how often a record is among the deduplicated ones
DedupedCount(b) == Cardinality({i \in DedupedPlaces : bills[i] = b})

\* the deduplicated records the output lacks, or holds less often
Dropped == {b \in {bills[i] : i \in DedupedPlaces} : DedupedCount(b) > Count(limited, b)}

\* C20: a deduplicated record the truncation dropped has a received value, a
\* missing one counting as the empty string, that is at most that of every
\* record kept.
C20_MostRecentKept ==
    pc = "limited" =>
        \A b \in Dropped : \A k \in DOMAIN limited :
            ReceivedRank(b) <= ReceivedRank(limited[k])

\* C20 witness: a record dropped that stood first in the input and is older
\* than a record kept
C20_Witness ==
    /\ pc = "limited"
    /\ limited # <<>>
    /\ bills[1] \in Dropped
    /\ \E k \in DOMAIN limited : ReceivedRank(bills[1]) < ReceivedRank(limited[k])

----------------------------------------------------------------------------
(* Claims about the order of tied records (SpecLimit).                     *)

\* place i of the input comes before place j in the output: a greater
\* received value, or an equal one and an earlier place
Precedes(i, j) ==
    \/ ReceivedRank(bills[i]) > ReceivedRank(bills[j])
    \/ ReceivedRank(bills[i]) = ReceivedRank(bills[j]) /\ i < j

\* the deduplicated place that has k - 1 deduplicated places before it
PlaceAt(k) ==
    CHOOSE i \in DedupedPlaces :
        Cardinality({j \in DedupedPlaces : Precedes(j, i)}) = k - 1

\* C21: the output holds the deduplicated records by descending received
\* value, records of equal value (a missing one included) in their input
\* order, so that of tied records the earlier ones of the input survive the
\* truncation.
C21_TiesInInputOrder ==
    pc = "limited" =>
        \A k \in DOMAIN limited : limited[k] = bills[PlaceAt(k)]

\* C21 witness: three different records without received value, two of them
\* kept: the first two of the input, in that order
C21_Witness ==
    /\ pc = "limited"
    /\ Len(bills) = 3 /\ max_messages = 2
    /\ \A i \in DOMAIN bills : bills[i].received = None
    /\ bills[1] # bills[2] /\ bills[1] # bills[3] /\ bills[2] # bills[3]
    /\ limited = <<bills[1], bills[2]>>

----------------------------------------------------------------------------
(* Claims about _limit_bills on its own output (SpecRelimit).              *)

\* C22: _limit_bills applied to its own output returns that output, and a
\* call leaves the list it was given as it was.
C22_LimitIdempotent ==
    [][/\ (pc = "limited" /\ pc' = "relimited") => limited' = limited
       /\ (pc = "extracted" /\ pc' = "limited") => bills' = bills]_vars

\* C22 witness: the second call after a first one that removed a duplicate,
\* reordered the rest and truncated it
C22_Witness ==
    /\ pc = "relimited"
    /\ Len(bills) = 3 /\ Len(limited) = 2
    /\ limited # SubSeq(bills, 1, 2)
    /\ ReceivedRank(limited[1]) > ReceivedRank(limited[2])

----------------------------------------------------------------------------
(* Claims about _fetch_emails (SpecFetch).                                 *)

\* what the try block and its except clause decided: the list, UpdateFailed
\* for an IMAPClientError, the exception itself for another one
Decided ==
    IF session.error = "" THEN "returned"
    ELSE IF session.error = "IMAPClientError" THEN "UpdateFailed"
    ELSE session.error

\* C23: until the function is left no logout has been attempted; when it is
\* left, on whichever path, exactly one has, and the function leaves with what
\* the try block decided, whether the logout failed or not.
C23_LogoutOnceOutcomeKept ==
    /\ pc \in {"constructed", "logged_in", "selected", "searched", "finally"}
          => session.logouts = 0
    /\ pc = "exited" =>
          /\ session.logouts = 1
          /\ outcome = Decided
          /\ outcome = "returned" => emails = collect(session.response)

\* C23 witness: the emails returned although the logout failed
C23_Witness ==
    /\ pc = "exited"
    /\ session.logout_error = "IMAPClientError"
    /\ outcome = "returned"
    /\ emails # <<>>
    /\ Len(session.response) > Len(emails)

\* C23 witnesses of other paths: a login failure, and the early return
C23_WitnessLoginFails ==
    /\ pc = "exited"
    /\ session.failed_at = "constructed"
    /\ session.logout_error # ""
    /\ outcome = "UpdateFailed"
    /\ session.logouts = 1

C23_WitnessEarlyReturn ==
    /\ pc = "exited"
    /\ session.error = "" /\ session.response = <<>> /\ emails = <<>>
    /\ outcome = "returned"
    /\ session.logouts = 1

----------------------------------------------------------------------------
(* Claims about setup and unload (SpecSetup).                              *)

\* the entries one of whose setups completed its first refresh, with no
\* successful unload since
Refreshed == {e \in EntryIds : entries[e].refreshed}

\* hass.data[DOMAIN] holds a coordinator for exactly those entries
RegistryMatches ==
    /\ hass_data.coordinators = Refreshed
    /\ hass_data.coordinators # {} => hass_data.domain

\* what one operation may do to the registry
RegistryStep ==
    /\ (operation'.op = "setup" /\ ~operation'.ok) =>
          /\ hass_data'.coordinators = hass_data.coordinators
          /\ \A e \in EntryIds : entries'[e].forwarded = entries[e].forwarded
    /\ (operation'.op = "unload" /\ ~operation'.ok) =>
          /\ outcome' = "False"
          /\ hass_data' = hass_data
    /\ (hass_data.domain /\ ~hass_data'.domain) =>
          /\ operation'.op = "unload" /\ operation'.ok
          /\ hass_data.coordinators = {operation'.entry_id}

\* C24: over any sequence of setups and unloads hass.data[DOMAIN] holds a
\* coordinator for an entry exactly when a setup of the entry completed its
\* first refresh and no unload of it has succeeded since; a setup whose first
\* refresh fails registers nothing and forwards no platform, an unload whose
\* platform unload fails returns False and leaves hass.data as it is, and the
\* DOMAIN key goes only with the unload of the last registered entry.
C24_RegistryTracksEntries == []RegistryMatches /\ [][RegistryStep]_vars

\* C24 witness: an unload of a registered entry has just failed and returned
\* False, a second entry is registered and the last one is not
C24_Witness ==
    /\ operation = Call("unload", 1, FALSE)
    /\ outcome = "False"
    /\ hass_data.coordinators = {1, 2}
    /\ ~entries[MaxEntries].refreshed

====
